---- MODULE Spec2Model ----
(***************************************************************************)
(* A model of src/data_pipeline.py: the BRL price formatter and parser,    *)
(* the JSON-LD block decoder, the name and price extraction cascades,      *)
(* parse_product and the prepare_dataset loop.                             *)
(*                                                                         *)
(* Python str values are sequences of one-character strings, so that       *)
(* strip, replace, split, "in" and the regular expression are computed     *)
(* character by character.  Python float values are exact decimals         *)
(* [neg, ip, fr]: a sign, an integer part and the fraction digits without  *)
(* trailing zeros.  The inputs never contain the digit 5 after the second  *)
(* decimal, so rounding to two decimals never meets a tie, and for such    *)
(* short decimals two doubles are equal exactly when the decimals are.     *)
(* The strings given to float() hold none of the letters e, i, n, f, a nor *)
(* "_", so its exponent, inf/nan and underscore forms do not arise.        *)
(***************************************************************************)
EXTENDS Integers, Sequences, FiniteSets, TLC

VARIABLES pc, val, price_text, parsed, soup, blocks, jname, name, price, df, lab

vars == <<pc, val, price_text, parsed, soup, blocks, jname, name, price, df, lab>>

(***************************************************************************)
(* Bounds of the model.                                                    *)
(***************************************************************************)
\* integer digits of the values formatted by _fmt_brl
MaxIntDigits == 7
\* characters of an enumerated <title> text
MaxLen == 7
\* <script type="application/ld+json"> tags of a document
MaxScripts == 2
\* rows of website_links.csv
MaxRows == 3
\* elements of a document body
MaxNodes == 2

(***************************************************************************)
(* Python str primitives.                                                  *)
(***************************************************************************)
Whitespace == {" ", "\t"}

DigitChars == <<"0", "1", "2", "3", "4", "5", "6", "7", "8", "9">>

IsDigit(c) == \E i \in 1..10 : DigitChars[i] = c

DigitVal(c) == (CHOOSE i \in 1..10 : DigitChars[i] = c) - 1

DigitChar(d) == DigitChars[d + 1]

\* s[i:] (i is 1-based)
Drop(s, i) == SubSeq(s, i, Len(s))

\* s.startswith(p, i-1)
StartsWithAt(s, p, i) ==
    /\ i + Len(p) - 1 <= Len(s)
    /\ \A k \in 1..Len(p) : s[i + k - 1] = p[k]

\* s.lstrip()
RECURSIVE LStrip(_)
LStrip(s) ==
    IF s # <<>> /\ Head(s) \in Whitespace THEN LStrip(Tail(s)) ELSE s

\* s.rstrip()
RECURSIVE RStrip(_)
RStrip(s) ==
    IF s # <<>> /\ s[Len(s)] \in Whitespace
    THEN RStrip(SubSeq(s, 1, Len(s) - 1))
    ELSE s

\* s.strip()
Strip(s) == RStrip(LStrip(s))

\* s.replace(old, new), old non-empty: leftmost non-overlapping occurrences
RECURSIVE Replace(_, _, _)
Replace(s, old, new) ==
    IF s = <<>> THEN <<>>
    ELSE IF StartsWithAt(s, old, 1)
         THEN new \o Replace(Drop(s, Len(old) + 1), old, new)
         ELSE <<Head(s)>> \o Replace(Tail(s), old, new)

\* sep in s
Contains(s, sep) == \E i \in 1..Len(s) : StartsWithAt(s, sep, i)

\* s.split(sep)[0], for sep in s
SplitFirst(s, sep) ==
    LET i == CHOOSE k \in 1..Len(s) :
                 /\ StartsWithAt(s, sep, k)
                 /\ \A j \in 1..(k - 1) : ~StartsWithAt(s, sep, j)
    IN  SubSeq(s, 1, i - 1)

(***************************************************************************)
(* Python values.  Every optional or dynamically typed value is a record   *)
(* [t, s]: t is the type tag and s the characters of a str.                *)
(***************************************************************************)
Str(s) == [t |-> "str", s |-> s]

\* None, a missing tag, a missing attribute or a missing dictionary key
None == [t |-> "none", s |-> <<>>]

\* a JSON number; s holds its digits
Num(s) == [t |-> "num", s |-> s]

\* an exception propagating out of the function
Raised(s) == [t |-> "raise", s |-> s]

\* bool(x)
Truthy(x) ==
    \/ x.t = "str" /\ x.s # <<>>
    \/ x.t = "num" /\ x.s # <<"0">>

(***************************************************************************)
(* Python float.                                                           *)
(***************************************************************************)
Float(neg, ip, fr) == [ok |-> TRUE, neg |-> neg, ip |-> ip, fr |-> fr]

\* the ValueError of float(), or the None of the BRL parser
NoFloat == [ok |-> FALSE, neg |-> FALSE, ip |-> 0, fr |-> <<>>]

RECURSIVE TrimZeros(_)
TrimZeros(fr) ==
    IF fr # <<>> /\ fr[Len(fr)] = 0
    THEN TrimZeros(SubSeq(fr, 1, Len(fr) - 1))
    ELSE fr

\* a == b on floats (-0.0 == 0.0)
FloatEq(a, b) ==
    /\ a.ok /\ b.ok
    /\ a.ip = b.ip
    /\ a.fr = b.fr
    /\ (a.neg = b.neg \/ (a.ip = 0 /\ a.fr = <<>>))

RECURSIVE DigitsToNat(_)
DigitsToNat(ds) ==
    IF ds = <<>> THEN 0
    ELSE 10 * DigitsToNat(SubSeq(ds, 1, Len(ds) - 1)) + DigitVal(ds[Len(ds)])

AllDigits(s) == \A i \in 1..Len(s) : IsDigit(s[i])

\* float(s): surrounding whitespace, an optional sign, digits with at most
\* one point and at least one digit; anything else is a ValueError
FloatOf(str) ==
    LET s    == Strip(str)
        sgn  == s # <<>> /\ Head(s) \in {"-", "+"}
        body == IF sgn THEN Tail(s) ELSE s
        dots == {i \in 1..Len(body) : body[i] = "."}
        p    == IF dots = {} THEN Len(body) + 1 ELSE CHOOSE i \in dots : TRUE
        ipart == SubSeq(body, 1, p - 1)
        fpart == SubSeq(body, p + 1, Len(body))
    IN  IF /\ Cardinality(dots) <= 1
           /\ AllDigits(ipart) /\ AllDigits(fpart)
           /\ Len(ipart) + Len(fpart) >= 1
        THEN Float(sgn /\ Head(s) = "-",
                   DigitsToNat(ipart),
                   TrimZeros([i \in 1..Len(fpart) |-> DigitVal(fpart[i])]))
        ELSE NoFloat

(***************************************************************************)
(* _fmt_brl                                                                *)
(***************************************************************************)
RECURSIVE NatToDigits(_)
NatToDigits(n) ==
    IF n < 10 THEN <<DigitChar(n)>>
    ELSE NatToDigits(n \div 10) \o <<DigitChar(n % 10)>>

\* the "," option of the format spec: a comma every three integer digits
RECURSIVE Grouped(_)
Grouped(ds) ==
    IF Len(ds) <= 3 THEN ds
    ELSE Grouped(SubSeq(ds, 1, Len(ds) - 3)) \o <<",">>
         \o SubSeq(ds, Len(ds) - 2, Len(ds))

FrDigit(v, i) == IF i <= Len(v.fr) THEN v.fr[i] ELSE 0

\* f"{val:,.2f}": round to two decimals (half-even on a tie), keep the sign
FormatFixed2(v) ==
    LET c    == 10 * FrDigit(v, 1) + FrDigit(v, 2)
        tie  == Len(v.fr) = 3 /\ v.fr[3] = 5
        up   == IF tie THEN c % 2 = 1 ELSE FrDigit(v, 3) >= 5
        c2   == IF up THEN c + 1 ELSE c
        ip2  == IF c2 = 100 THEN v.ip + 1 ELSE v.ip
        c3   == c2 % 100
    IN  (IF v.neg THEN <<"-">> ELSE <<>>)
        \o Grouped(NatToDigits(ip2))
        \o <<".", DigitChar(c3 \div 10), DigitChar(c3 % 10)>>

\* _fmt_brl(val)
FmtBrl(v) ==
    <<"R", "$", " ">>
    \o Replace(Replace(Replace(FormatFixed2(v), <<",">>, <<"X">>),
                       <<".">>, <<",">>),
               <<"X">>, <<".">>)

(***************************************************************************)
(* BR_PRICE_RE and _parse_brl_price_text_to_float                          *)
(***************************************************************************)
RECURSIVE SkipSpaces(_, _)
SkipSpaces(s, i) ==
    IF i <= Len(s) /\ s[i] \in Whitespace THEN SkipSpaces(s, i + 1) ELSE i

RECURSIVE DigitRun(_, _)
DigitRun(s, i) ==
    IF i <= Len(s) /\ IsDigit(s[i]) THEN 1 + DigitRun(s, i + 1) ELSE 0

\* (?:\.\d{3})* : the position after the last ".ddd" group starting at i
RECURSIVE SkipGroups(_, _)
SkipGroups(s, i) ==
    IF /\ i + 3 <= Len(s)
       /\ s[i] = "."
       /\ IsDigit(s[i + 1]) /\ IsDigit(s[i + 2]) /\ IsDigit(s[i + 3])
    THEN SkipGroups(s, i + 4)
    ELSE i

\* BR_PRICE_RE.match(s, i-1): the position after the match, 0 for no match.
\* \d{1,3} and the groups are followed by "." or ",", so the greedy match
\* is the only one: a digit left over after either makes every
\* backtracking alternative fail as well.
MatchEnd(s, i) ==
    IF ~(i + 1 <= Len(s) /\ s[i] \in {"R", "r"} /\ s[i + 1] = "$") THEN 0
    ELSE LET j == SkipSpaces(s, i + 2)
             k == DigitRun(s, j)
         IN  IF k = 0 THEN 0
             ELSE LET g == SkipGroups(s, j + (IF k > 3 THEN 3 ELSE k))
                  IN  IF /\ g + 2 <= Len(s)
                         /\ s[g] = ","
                         /\ IsDigit(s[g + 1]) /\ IsDigit(s[g + 2])
                      THEN g + 3
                      ELSE 0

\* _parse_brl_price_text_to_float(text)
ParseBrl(text) ==
    IF text = <<>> THEN NoFloat
    ELSE LET hits == {i \in 1..Len(text) : MatchEnd(text, i) # 0}
         IN  IF hits = {} THEN NoFloat
             ELSE LET i    == CHOOSE h \in hits : \A o \in hits : h <= o
                      raw  == SubSeq(text, i, MatchEnd(text, i) - 1)
                      num  == Strip(Replace(raw, <<"R", "$">>, <<>>))
                      num2 == Replace(Replace(num, <<".">>, <<>>),
                                      <<",">>, <<".">>)
                  IN  FloatOf(num2)

(***************************************************************************)
(* The parsed document (BeautifulSoup).                                    *)
(*   scripts : the <script type="application/ld+json"> tags, in document   *)
(*             order, each by what json.loads makes of its text;           *)
(*   meta    : for each property, the content of the first <meta> with     *)
(*             that property (what soup.find returns), None when there is  *)
(*             no such tag or it has no content attribute;                 *)
(*   title   : soup.title.string, None without a <title> or its text;      *)
(*   body    : the elements of the body in document order, each with its   *)
(*             tag name, its itemprop and content attributes and its text  *)
(*             nodes.                                                      *)
(***************************************************************************)
PRODUCT == <<"P", "r", "o", "d", "u", "c", "t">>

OFFER == <<"O", "f", "f", "e", "r">>

BRL == <<"B", "R", "L">>

PRICE == <<"p", "r", "i", "c", "e">>

MetaProps ==
    {"og:title",
     "product:price:amount", "product:price:currency",
     "og:price:amount", "og:price:currency",
     "product:sale_price:amount", "product:sale_price:currency"}

NoMeta == [p \in MetaProps |-> None]

\* an entry of a decoded JSON-LD document: a dict with its "@type" and
\* "name" values (None for a missing key), or a value that is no dict
Dict(type, nm) == [dict |-> TRUE, type |-> type, name |-> nm]

NonDict == [dict |-> FALSE, type |-> None, name |-> None]

\* a script tag: kind is "blank" (no text after strip), "invalid"
\* (json.loads raises), "scalar", "dict" (items holds it) or "list"
Script(kind, items) == [kind |-> kind, items |-> items]

Node(tag, itemprop, content, strings) ==
    [tag |-> tag, itemprop |-> itemprop, content |-> content,
     strings |-> strings]

Soup(scripts, meta, title, body) ==
    [scripts |-> scripts, meta |-> meta, title |-> title, body |-> body]

\* " ".join(stripped non-empty strings): get_text(" ", strip=True)
RECURSIVE JoinStripped(_)
JoinStripped(strings) ==
    IF strings = <<>> THEN <<>>
    ELSE LET h == Strip(Head(strings))
             r == JoinStripped(Tail(strings))
         IN  IF h = <<>> THEN r
             ELSE IF r = <<>> THEN h
             ELSE h \o <<" ">> \o r

\* el.get_text(" ", strip=True)
GetText(el) == JoinStripped(el.strings)

RECURSIVE AllStrings(_)
AllStrings(body) ==
    IF body = <<>> THEN <<>>
    ELSE Head(body).strings \o AllStrings(Tail(body))

\* soup.get_text(" ", strip=True): the title text, then the body's text
\* nodes (the strings of script tags are not part of it)
PageText(s) ==
    JoinStripped((IF s.title.t = "str" THEN <<s.title.s>> ELSE <<>>)
                 \o AllStrings(s.body))

\* soup.find(tag): the first element of the body with that tag name
RECURSIVE FindTag(_, _)
FindTag(body, tag) ==
    IF body = <<>> THEN 0
    ELSE IF Head(body).tag = tag THEN 1
    ELSE LET r == FindTag(Tail(body), tag) IN IF r = 0 THEN 0 ELSE r + 1

\* soup.select_one('[itemprop="price"]'): index in body, 0 for None
RECURSIVE SelectItempropPrice(_)
SelectItempropPrice(body) ==
    IF body = <<>> THEN 0
    ELSE IF Head(body).itemprop = Str(PRICE) THEN 1
    ELSE LET r == SelectItempropPrice(Tail(body))
         IN  IF r = 0 THEN 0 ELSE r + 1

(***************************************************************************)
(* _json_ld_blocks                                                         *)
(***************************************************************************)
IsDict(x) == x.dict

RECURSIVE JsonLdBlocksOf(_)
JsonLdBlocksOf(scripts) ==
    IF scripts = <<>> THEN <<>>
    ELSE LET tag == Head(scripts)
             got == IF tag.kind = "dict" THEN tag.items
                    ELSE IF tag.kind = "list" THEN SelectSeq(tag.items, IsDict)
                    ELSE <<>>
         IN  got \o JsonLdBlocksOf(Tail(scripts))

JsonLdBlocks(s) == JsonLdBlocksOf(s.scripts)

(***************************************************************************)
(* _extract_name_from_jsonld                                               *)
(***************************************************************************)
ATTRIBUTE_ERROR == <<"A", "t", "t", "r", "i", "b", "u", "t", "e", "E", "r", "r", "o", "r">>

\* obj["name"].strip() or None; a name that is no str has no strip()
StripOrNone(nm) ==
    IF nm.t # "str" THEN Raised(ATTRIBUTE_ERROR)
    ELSE IF Strip(nm.s) # <<>> THEN Str(Strip(nm.s))
    ELSE None

RECURSIVE ExtractNameFromJsonld(_)
ExtractNameFromJsonld(bs) ==
    IF bs = <<>> THEN None
    ELSE LET obj == Head(bs)
         IN  IF obj.type = Str(PRODUCT) /\ Truthy(obj.name)
             THEN StripOrNone(obj.name)
             ELSE ExtractNameFromJsonld(Tail(bs))

(***************************************************************************)
(* _extract_name                                                           *)
(***************************************************************************)
\* (" | ", " - " with U+2013, " - "); the one-character string "ndash"
\* stands for U+2013, the en dash
Separators ==
    << <<" ", "|", " ">>, <<" ", "ndash", " ">>, <<" ", "-", " ">> >>

\* A variant of TitleSplit that cuts at the separator occurring earliest in
\* the title, whatever its place in the tuple.
TitleSplit_Earliest(title, i) ==
    LET at(k) == \E j \in 1..Len(Separators) : StartsWithAt(title, Separators[j], k)
        hits  == {k \in 1..Len(title) : at(k)}
    IN  IF hits = {} THEN title
        ELSE Strip(SubSeq(title, 1, (CHOOSE k \in hits : \A o \in hits : k <= o) - 1))

\* for sep in (...): if sep in title: return title.split(sep)[0].strip()
RECURSIVE TitleSplit(_, _)
TitleSplit(title, i) ==
    IF i > Len(Separators) THEN title
    ELSE IF Contains(title, Separators[i])
         THEN Strip(SplitFirst(title, Separators[i]))
         ELSE TitleSplit(title, i + 1)

\* 4) <title> (fallback)
NameFromTitle(s) ==
    IF Truthy(s.title) THEN Str(TitleSplit(Strip(s.title.s), 1)) ELSE None

\* 3) h1
NameFromH1(s) ==
    LET i == FindTag(s.body, "h1")
    IN  IF i # 0 /\ GetText(s.body[i]) # <<>>
        THEN Str(GetText(s.body[i]))
        ELSE None

\* 2) og:title
NameFromOg(s) ==
    LET og == s.meta["og:title"]
    IN  IF Truthy(og) /\ Strip(og.s) # <<>> THEN Str(Strip(og.s)) ELSE None

\* _extract_name after its first statement, jn being what
\* _extract_name_from_jsonld returned or raised
NameAfterJsonld(s, jn) ==
    IF jn.t = "raise" THEN jn
    ELSE IF Truthy(jn) THEN jn
    ELSE IF NameFromOg(s) # None THEN NameFromOg(s)
    ELSE IF NameFromH1(s) # None THEN NameFromH1(s)
    ELSE NameFromTitle(s)

ExtractName(s) == NameAfterJsonld(s, ExtractNameFromJsonld(JsonLdBlocks(s)))

(***************************************************************************)
(* _extract_price_and_currency                                             *)
(***************************************************************************)
PriceResult(value, curr, hint) ==
    [text |-> Str(FmtBrl(value)), value |-> value, curr |-> Str(curr),
     hint |-> hint]

\* return None, None, None, None; also what a strategy that fell through
\* hands to the next one
NoPrice == [text |-> None, value |-> NoFloat, curr |-> None, hint |-> "None"]

\* float(str(x).replace(",", "."))
FloatOfComma(x) == FloatOf(Replace(x, <<",">>, <<".">>))

\* prop.replace(":amount", ":currency")
CurrencyProp(prop) ==
    CASE prop = "product:price:amount" -> "product:price:currency"
      [] prop = "og:price:amount" -> "og:price:currency"
      [] prop = "product:sale_price:amount" -> "product:sale_price:currency"

\* A variant of CurrencyOf that takes the marker's content as it is.
CurrencyOf_Unstripped(s, prop) ==
    LET m == s.meta[CurrencyProp(prop)]
    IN  IF Truthy(m) THEN m.s ELSE BRL

\* curr = "BRL"; if meta and meta.get("content"):
\*     curr = (content or "BRL").strip() or "BRL"
CurrencyOf(s, prop) ==
    LET m == s.meta[CurrencyProp(prop)]
    IN  IF Truthy(m) /\ Strip(m.s) # <<>> THEN Strip(m.s) ELSE BRL

MetaHint(prop) ==
    CASE prop = "product:price:amount" -> "meta[property=\"product:price:amount\"]"
      [] prop = "og:price:amount" -> "meta[property=\"og:price:amount\"]"
      [] prop = "product:sale_price:amount" -> "meta[property=\"product:sale_price:amount\"]"

\* the body of strategy A and of one iteration of strategy C
PriceFromMeta(s, prop) ==
    LET m   == s.meta[prop]
        amount == FloatOfComma(m.s)
    IN  IF Truthy(m) /\ amount.ok
        THEN PriceResult(amount, CurrencyOf(s, prop), MetaHint(prop))
        ELSE NoPrice

\* B) itemprop="price"
PriceFromItemprop(s) ==
    LET i == SelectItempropPrice(s.body)
    IN  IF i = 0 THEN NoPrice
        ELSE LET el  == s.body[i]
                 raw == IF Truthy(el.content) THEN el.content.s ELSE GetText(el)
                 amount == FloatOfComma(raw)
                 p   == ParseBrl(raw)
             IN  IF raw = <<>> THEN NoPrice
                 ELSE IF amount.ok
                 THEN PriceResult(amount, BRL, "itemprop=\"price\"")
                 ELSE IF p.ok
                 THEN PriceResult(p, BRL, "itemprop=\"price\" (regex)")
                 ELSE NoPrice

\* D) regex over the whole page text
PriceFromDom(s) ==
    LET p == ParseBrl(PageText(s))
    IN  IF p.ok THEN PriceResult(p, BRL, "regex-dom") ELSE NoPrice

AltProps == <<"og:price:amount", "product:sale_price:amount">>

\* the whole function
ExtractPriceAndCurrency(s) ==
    IF PriceFromMeta(s, "product:price:amount") # NoPrice
    THEN PriceFromMeta(s, "product:price:amount")
    ELSE IF PriceFromItemprop(s) # NoPrice THEN PriceFromItemprop(s)
    ELSE IF PriceFromMeta(s, AltProps[1]) # NoPrice
    THEN PriceFromMeta(s, AltProps[1])
    ELSE IF PriceFromMeta(s, AltProps[2]) # NoPrice
    THEN PriceFromMeta(s, AltProps[2])
    ELSE PriceFromDom(s)

(***************************************************************************)
(* parse_product: (url, name, price_value), or the exception raised        *)
(***************************************************************************)
ParseProduct(s) ==
    LET n == ExtractName(s)
    IN  IF n.t = "raise"
        THEN [raised |-> TRUE, error |-> n.s, name |-> None, value |-> NoFloat]
        ELSE [raised |-> FALSE, error |-> <<>>, name |-> n,
              value |-> ExtractPriceAndCurrency(s).value]

(***************************************************************************)
(* Input documents.                                                        *)
(***************************************************************************)
EmptySoup == Soup(<<>>, NoMeta, None, <<>>)

\* all sequences over S of length at most n
SeqsUpTo(S, n) == UNION {[1..k -> S] : k \in 0..n}

\* values of the "name" key of a Product entry: missing, empty, blank,
\* padded, plain, and numbers (truthy and falsy)
ProductNames ==
    {None, Str(<<>>), Str(<<" ">>), Str(<<" ", "J", " ">>), Str(<<"K">>),
     Num(<<"7">>), Num(<<"0">>)}

DictSet ==
    {Dict(Str(PRODUCT), n) : n \in ProductNames}
    \cup {Dict(Str(OFFER), Str(<<"K">>)), Dict(None, Str(<<"K">>))}

ListedDicts ==
    {Dict(Str(PRODUCT), Str(<<" ">>)), Dict(Str(PRODUCT), Str(<<" ", "J", " ">>)),
     Dict(Str(PRODUCT), Str(<<"K">>))}

ScriptSet ==
    {Script("blank", <<>>), Script("invalid", <<>>), Script("scalar", <<>>),
     Script("list", <<>>)}
    \cup {Script("dict", <<d>>) : d \in DictSet}
    \cup {Script("list", <<NonDict, d>>) : d \in DictSet}
    \cup {Script("list", <<d, e>>) : d \in ListedDicts, e \in ListedDicts}

OgTitles == {None, Str(<<" ">>), Str(<<" ", "O", " ">>)}

H1Bodies ==
    {<<>>,
     <<Node("h1", None, None, <<<<" ">>>>)>>,
     <<Node("h1", None, None, <<<<" ", "H">>, <<" ">>, <<"h", " ">>>>)>>,
     <<Node("div", None, None, <<<<"x">>>>), Node("h1", None, None, <<<<"H">>>>)>>}

SomeTitles ==
    {None, Str(<<" ">>), Str(<<"T">>), Str(<<"T", " ", "|", " ", "x">>)}

\* documents for the JSON-LD scan and the name cascade
NameSoups ==
    {Soup(sc, [NoMeta EXCEPT !["og:title"] = og], t, b) :
        sc \in SeqsUpTo(ScriptSet, MaxScripts), og \in OgTitles,
        t \in SomeTitles, b \in H1Bodies}

TitleChars == {" ", "a", "|", "-"}

WIDGET_TITLE == <<"W", "i", "d", "g", "e", "t", " ", "-", " ", "A", "c", "m", "e", " ", "|", " ", "S", "t", "o", "r", "e">>

WIDGET == <<"W", "i", "d", "g", "e", "t">>

WIDGET_ACME == <<"W", "i", "d", "g", "e", "t", " ", "-", " ", "A", "c", "m", "e">>

LongTitles ==
    {WIDGET_TITLE,
     <<"a", " ", "ndash", " ", "b", " ", "|", " ", "c">>,
     <<"a", " ", "-", " ", "b", " ", "ndash", " ", "c">>,
     <<" ", "a", " ", "ndash", " ", "b", " ", "ndash", " ", "c", "\t">>,
     <<"a", "-", "b", " ", " ", "|", " ", " ", "c">>}

\* documents whose only name source is the title element
TitleSoups ==
    {Soup(<<>>, NoMeta, t, b) :
        t \in {None} \cup {Str(x) : x \in SeqsUpTo(TitleChars, MaxLen) \cup LongTitles},
        b \in {<<>>, <<Node("h1", None, None, <<<<" ">>>>)>>}}

AmountsA ==
    {None, Str(<<>>), Str(<<"x">>),
     Str(<<"1", "9", ",", "9", "0">>), Str(<<"-", "1", ".", "9">>),
     Str(<<"1", "9", "9", "9", ".", "1", "0", "9">>), Str(<<" ", "0", ".", "9", "9", "6", " ">>)}

CurrenciesA == {None, Str(<<" ">>), Str(<<" ", "U", "S", "D", " ">>)}

\* the metas of strategy C: og:price:amount, og:price:currency,
\* product:sale_price:amount, product:sale_price:currency
AltMeta(o, oc, sa, sc) == [o |-> o, oc |-> oc, sa |-> sa, sc |-> sc]

OG_BAD == Str(<<"1", ",", "x">>)

OG_GOOD == Str(<<"9", ".", "1">>)

SALE_GOOD == Str(<<"1", "2", "3", "4", "5">>)

EUR == Str(<<"E", "U", "R">>)

AltMetas ==
    {AltMeta(None, None, None, None),
     AltMeta(OG_BAD, EUR, None, None),
     AltMeta(OG_GOOD, None, SALE_GOOD, EUR),
     AltMeta(OG_GOOD, EUR, None, None),
     AltMeta(OG_GOOD, Str(<<"\t">>), None, None),
     AltMeta(OG_BAD, EUR, SALE_GOOD, None),
     AltMeta(OG_BAD, None, SALE_GOOD, EUR),
     AltMeta(None, None, Str(<<"-">>), EUR)}

PriceNodes ==
    {Node("span", Str(PRICE), None, <<<<"R", "$", " ", "9", ",", "9", "9">>>>),
     Node("meta", Str(PRICE), Str(<<"1", ".", "5">>), <<>>),
     Node("span", Str(PRICE), Str(<<"x">>), <<<<" ", "R", "$", "1", ",", "0", "0", " ">>>>),
     Node("span", Str(PRICE), None, <<<<" ">>>>),
     Node("div", None, None, <<<<"r", "$", " ", "3", ",", "0", "0">>, <<"R", "$", " ", "4", ",", "0", "0">>>>),
     Node("div", Str(<<"x">>), Str(<<"7">>), <<<<"d", "e", " ", "R", "$", " ", "1", "2", ".", "3", "4", "5", ",", "6", "7", "8">>>>)}

\* documents for the price cascade
PriceSoups ==
    {Soup(<<>>,
          [NoMeta EXCEPT !["product:price:amount"] = a,
                         !["product:price:currency"] = ac,
                         !["og:price:amount"] = alt.o,
                         !["og:price:currency"] = alt.oc,
                         !["product:sale_price:amount"] = alt.sa,
                         !["product:sale_price:currency"] = alt.sc],
          None, b) :
        a \in AmountsA, ac \in CurrenciesA, alt \in AltMetas,
        b \in SeqsUpTo(PriceNodes, MaxNodes)}

\* digits of the amounts formatted by _fmt_brl: none is 5 (see the header)
RECURSIVE IntParts(_)
IntParts(n) ==
    IF n = 0 THEN {0}
    ELSE {10 * x + d : x \in IntParts(n - 1), d \in {0, 1, 9}}

CentParts == {<<>>, <<0, 1>>, <<1>>, <<9>>, <<0, 9>>, <<9, 9>>}

\* floats with two decimal digits, of either sign
BrlValues ==
    {Float(neg, ip, fr) :
        neg \in BOOLEAN, ip \in IntParts(MaxIntDigits), fr \in CentParts}
    \ {Float(TRUE, 0, <<>>)}

\* the pages the fetcher may return
ProductPage ==
    Soup(<<Script("invalid", <<>>),
           Script("dict", <<Dict(Str(PRODUCT), Str(<<" ", "J", " ">>))>>)>>,
         [NoMeta EXCEPT !["product:price:amount"] = Str(<<"1", "9", ",", "9", "0">>)],
         Str(<<"T", " ", "|", " ", "x">>),
         <<Node("h1", None, None, <<<<"H">>>>)>>)

BadNamePage ==
    Soup(<<Script("dict", <<Dict(Str(PRODUCT), Num(<<"7">>))>>)>>,
         [NoMeta EXCEPT !["og:title"] = Str(<<"O">>)], None, <<>>)

TextPage ==
    Soup(<<>>, NoMeta, Str(<<"T", " ", "-", " ", "x">>),
         <<Node("div", None, None, <<<<"R", "$", " ", "1", ".", "2", "3", "4", ",", "5", "6">>>>)>>)

NegativePage ==
    Soup(<<>>, [NoMeta EXCEPT !["og:title"] = Str(<<"O">>),
                              !["og:price:amount"] = Str(<<"-", "1", ".", "9">>)],
         None, <<>>)

Pages == {ProductPage, BadNamePage, TextPage, NegativePage, EmptySoup}

\* the messages of the exceptions fetch_html raises
FetchErrors == {<<"4", "0", "4">>, <<"t", "i", "m", "e", "o", "u", "t">>}

(***************************************************************************)
(* The round trip _fmt_brl, _parse_brl_price_text_to_float.                *)
(***************************************************************************)
IdleBrl == val = NoFloat /\ price_text = None /\ parsed = NoFloat

IdleName == blocks = <<>> /\ jname = None /\ name = None

IdleData == df = <<>> /\ lab = 0

InitBrl ==
    /\ pc = "fmt"
    /\ val \in BrlValues
    /\ price_text = None /\ parsed = NoFloat
    /\ soup = EmptySoup /\ price = NoPrice
    /\ IdleName /\ IdleData

Format ==
    /\ pc = "fmt"
    /\ price_text' = Str(FmtBrl(val))
    /\ pc' = "parse"
    /\ UNCHANGED <<val, parsed, soup, blocks, jname, name, price, df, lab>>

Parse ==
    /\ pc = "parse"
    /\ parsed' = ParseBrl(price_text.s)
    /\ pc' = "brl_done"
    /\ UNCHANGED <<val, price_text, soup, blocks, jname, name, price, df, lab>>

NextBrl == Format \/ Parse

SpecBrl == InitBrl /\ [][NextBrl]_vars

(***************************************************************************)
(* _extract_name, statement by statement.                                  *)
(***************************************************************************)
InitNameOver(soups) ==
    /\ pc = "blocks"
    /\ soup \in soups
    /\ IdleName /\ IdleBrl /\ IdleData
    /\ price = NoPrice

\* _json_ld_blocks(soup)
DecodeBlocks ==
    /\ pc = "blocks"
    /\ blocks' = JsonLdBlocks(soup)
    /\ pc' = "jsonld"
    /\ UNCHANGED <<val, price_text, parsed, soup, jname, name, price, df, lab>>

\* name = _extract_name_from_jsonld(blocks)
ScanJsonld ==
    /\ pc = "jsonld"
    /\ jname' = ExtractNameFromJsonld(blocks)
    /\ pc' = "cascade"
    /\ UNCHANGED <<val, price_text, parsed, soup, blocks, name, price, df, lab>>

\* the rest of _extract_name: its return value, or the exception
NameCascade ==
    /\ pc = "cascade"
    /\ name' = NameAfterJsonld(soup, jname)
    /\ pc' = "name_done"
    /\ UNCHANGED <<val, price_text, parsed, soup, blocks, jname, price, df, lab>>

NextName == DecodeBlocks \/ ScanJsonld \/ NameCascade

InitName == InitNameOver(NameSoups)

SpecName == InitName /\ [][NextName]_vars

InitTitle == InitNameOver(TitleSoups)

SpecTitle == InitTitle /\ [][NextName]_vars

(***************************************************************************)
(* _extract_price_and_currency, strategy by strategy.                      *)
(***************************************************************************)
InitPrice ==
    /\ pc = "A"
    /\ soup \in PriceSoups
    /\ price = NoPrice
    /\ IdleName /\ IdleBrl /\ IdleData

\* a strategy returns r, or falls through to the statement at next
Return(r, next) ==
    /\ price' = r
    /\ pc' = IF r # NoPrice THEN "price_done" ELSE next
    /\ UNCHANGED <<val, price_text, parsed, soup, blocks, jname, name, df, lab>>

\* A variant of StrategyA in which a content that does not parse ends the
\* extraction with nothing found.
StrategyA_Abort ==
    /\ pc = "A"
    /\ price' = PriceFromMeta(soup, "product:price:amount")
    /\ pc' = IF price' = NoPrice /\ ~Truthy(soup.meta["product:price:amount"])
             THEN "B" ELSE "price_done"
    /\ UNCHANGED <<val, price_text, parsed, soup, blocks, jname, name, df, lab>>

StrategyA ==
    /\ pc = "A"
    /\ Return(PriceFromMeta(soup, "product:price:amount"), "B")

StrategyB ==
    /\ pc = "B"
    /\ Return(PriceFromItemprop(soup), "C1")

\* iteration i of: for prop in ("og:price:amount", "product:sale_price:amount")
StrategyC(i) ==
    /\ pc = (IF i = 1 THEN "C1" ELSE "C2")
    /\ Return(PriceFromMeta(soup, AltProps[i]), IF i = 1 THEN "C2" ELSE "D")

StrategyD ==
    /\ pc = "D"
    /\ Return(PriceFromDom(soup), "price_done")

NextPrice ==
    \/ StrategyA
    \/ StrategyB
    \/ \E i \in 1..Len(AltProps) : StrategyC(i)
    \/ StrategyD

SpecPrice == InitPrice /\ [][NextPrice]_vars

(***************************************************************************)
(* prepare_dataset.  df is the frame read from website_links.csv, lab the  *)
(* label of the row the loop is at.  Each row also records, for the        *)
(* properties below, what fetch_html and parse_product did for it          *)
(* (outcome) and how many times the loop body ran on it (seen).            *)
(***************************************************************************)
\* a cell of the frame: NaN (never written), None, a str or a float
Cell(t, s, f) == [t |-> t, s |-> s, f |-> f]

NaN == Cell("nan", <<>>, NoFloat)

CellStr(s) == Cell("str", s, NoFloat)

CellOfName(n) == IF n.t = "str" THEN CellStr(n.s) ELSE Cell("none", <<>>, NoFloat)

CellOfFloat(f) == IF f.ok THEN Cell("float", <<>>, f) ELSE Cell("none", <<>>, NoFloat)

ISSUE == <<"I", "s", "s", "u", "e", " ", "o", "c", "c", "u", "r", "r", "e", "d", " ", "d", "u", "r", "i", "n", "g", " ", "f", "e", "t", "c", "h", "/", "p", "a", "r", "s", "e", " ", "-", " ">>

\* what fetch_html and parse_product do for one row: the exception of
\* either, or the tuple parse_product returns
Outcomes ==
    {[raised |-> TRUE, error |-> e, name |-> None, value |-> NoFloat] :
        e \in FetchErrors}
    \cup {ParseProduct(page) : page \in Pages}

Row(url) ==
    [URL |-> url, product_name |-> NaN, price_value |-> NaN, comment |-> NaN,
     time |-> FALSE, outcome |-> CHOOSE o \in Outcomes : TRUE, seen |-> 0]

InitData ==
    /\ pc = "loop"
    /\ \E n \in 0..MaxRows : df = [i \in 1..n |-> Row(i)]
    /\ lab = 1
    /\ soup = EmptySoup /\ price = NoPrice
    /\ IdleName /\ IdleBrl

\* the try block ran to its end
RowWritten(row, o) ==
    [row EXCEPT !.product_name = CellOfName(o.name),
                !.price_value = CellOfFloat(o.value),
                !.comment = CellStr(<<>>),
                !.outcome = o, !.seen = @ + 1]

\* the except block
RowFailed(row, o) ==
    [row EXCEPT !.product_name = CellStr(<<>>),
                !.price_value = CellStr(<<>>),
                !.comment = CellStr(ISSUE \o o.error),
                !.outcome = o, !.seen = @ + 1]

\* A variant of Iterate in which an exception ends the loop.
Iterate_Abort ==
    /\ pc = "loop"
    /\ lab <= Len(df)
    /\ \E o \in Outcomes :
          /\ df' = [df EXCEPT ![lab] = IF o.raised THEN RowFailed(@, o)
                                       ELSE RowWritten(@, o)]
          /\ pc' = IF o.raised THEN "returned" ELSE pc
    /\ lab' = lab + 1
    /\ UNCHANGED <<val, price_text, parsed, soup, blocks, jname, name, price>>

\* one iteration of the loop: fetch, parse, write the row
Iterate ==
    /\ pc = "loop"
    /\ lab <= Len(df)
    /\ \E o \in Outcomes :
          df' = [df EXCEPT ![lab] = IF o.raised THEN RowFailed(@, o)
                                    ELSE RowWritten(@, o)]
    /\ lab' = lab + 1
    /\ UNCHANGED <<pc, val, price_text, parsed, soup, blocks, jname, name, price>>

\* df_product['time'] = now; return df_product
Finish ==
    /\ pc = "loop"
    /\ lab > Len(df)
    /\ df' = [i \in 1..Len(df) |-> [df[i] EXCEPT !.time = TRUE]]
    /\ pc' = "returned"
    /\ UNCHANGED <<lab, val, price_text, parsed, soup, blocks, jname, name, price>>

Next == Iterate \/ Finish

Init == InitData

Spec == Init /\ [][Next]_vars

\* the loop is sequential code: a step that can be taken is taken
FairSpec == Spec /\ WF_vars(Next)

(***************************************************************************)
(* Properties.                                                             *)
(***************************************************************************)
NameDone == pc = "name_done"

PriceDone == pc = "price_done"

\* C1: no document makes the extractors raise: _extract_name_from_jsonld
\* and _extract_name return a value (a name or None) for every document.
C1_NeverRaises ==
    /\ pc \in {"cascade", "name_done"} => jname.t # "raise"
    /\ NameDone => name.t # "raise"

\* what the loop body leaves in a row, given what fetch and parse did
RowAsLeftBy(row) ==
    IF row.outcome.raised
    THEN /\ row.product_name = CellStr(<<>>)
         /\ row.price_value = CellStr(<<>>)
         /\ row.comment.t = "str"
         /\ row.comment.s # <<>>
         /\ Len(row.comment.s) >= Len(row.outcome.error)
         /\ Drop(row.comment.s, Len(row.comment.s) - Len(row.outcome.error) + 1)
                = row.outcome.error
    ELSE /\ row.product_name = CellOfName(row.outcome.name)
         /\ row.price_value = CellOfFloat(row.outcome.value)
         /\ row.comment = CellStr(<<>>)

\* rows before lab were processed once, rows from lab on are untouched
RowsInv ==
    /\ lab \in 1..(Len(df) + 1)
    /\ pc = "returned" => lab = Len(df) + 1
    /\ \A j \in 1..Len(df) :
          IF j < lab
          THEN df[j].seen = 1 /\ RowAsLeftBy(df[j])
          ELSE /\ df[j].seen = 0
               /\ df[j].product_name = NaN /\ df[j].price_value = NaN
               /\ df[j].comment = NaN

\* a step moves to the next row at most and changes no other row
RowsStep ==
    /\ Len(df') = Len(df)
    /\ lab' \in {lab, lab + 1}
    /\ \A j \in 1..Len(df) :
          j # lab => [df'[j] EXCEPT !.time = FALSE] = [df[j] EXCEPT !.time = FALSE]

\* C2: prepare_dataset visits every row once, in order, and returns; a row
\* whose fetch or parse raised holds "" as name and price and the error in
\* its comment, a row that succeeded holds the extracted name and price and
\* an empty comment; rows not at the loop's position are never changed.
C2_EveryRowProcessed ==
    /\ []RowsInv
    /\ [][RowsStep]_vars
    /\ <>(pc = "returned")

C2_Witness ==
    /\ pc = "returned"
    /\ Len(df) >= 3
    /\ df[1].outcome.raised /\ df[1].outcome.error = ATTRIBUTE_ERROR
    /\ df[2].outcome.raised /\ df[2].outcome.error \in FetchErrors
    /\ ~df[3].outcome.raised /\ df[3].product_name.t = "str"
    /\ df[3].price_value.t = "float"

\* the first value of vs that is truthy, None when none is
FirstTruthy(vs) ==
    IF \E i \in 1..Len(vs) : Truthy(vs[i])
    THEN vs[CHOOSE i \in 1..Len(vs) :
                Truthy(vs[i]) /\ \A j \in 1..(i - 1) : ~Truthy(vs[j])]
    ELSE None

\* what a strategy yields: its value, absent when it produced none
Yield(x) == IF x.t = "str" THEN x ELSE None

NameStrategies ==
    <<Yield(jname), NameFromOg(soup), NameFromH1(soup), NameFromTitle(soup)>>

\* C3: the name is the value of the first of the strategies JSON-LD,
\* og:title, h1, title that yields a non-empty value, and it is absent only
\* when all four yield nothing.
C3_NameCascade ==
    NameDone =>
        /\ (\E i \in 1..4 : Truthy(NameStrategies[i]))
               => name = FirstTruthy(NameStrategies)
        /\ name = None => \A i \in 1..4 : ~Truthy(NameStrategies[i])

PriceStrategies ==
    <<PriceFromMeta(soup, "product:price:amount"),
      PriceFromItemprop(soup),
      PriceFromMeta(soup, "og:price:amount"),
      PriceFromMeta(soup, "product:sale_price:amount"),
      PriceFromDom(soup)>>

FirstFound(rs) ==
    IF \E i \in 1..Len(rs) : rs[i] # NoPrice
    THEN rs[CHOOSE i \in 1..Len(rs) :
                rs[i] # NoPrice /\ \A j \in 1..(i - 1) : rs[j] = NoPrice]
    ELSE NoPrice

\* the strategies tried before the extraction is at pc
TriedBefore ==
    CASE pc = "A" -> 0
      [] pc = "B" -> 1
      [] pc = "C1" -> 2
      [] pc = "C2" -> 3
      [] pc = "D" -> 4
      [] OTHER -> 5

\* C4: the price result is that of the first strategy that succeeds in the
\* order A, B, C (og:price:amount, then product:sale_price:amount), D; a
\* strategy is reached only when every one before it failed, and the
\* result is all-absent only when all fail.
C4_PriceCascade ==
    LET rs == PriceStrategies
    IN  /\ pc \in {"B", "C1", "C2", "D"}
              => \A i \in 1..TriedBefore : rs[i] = NoPrice
        /\ PriceDone => price = FirstFound(rs)
        /\ PriceDone /\ price = NoPrice => \A i \in 1..5 : rs[i] = NoPrice

C4_Witness ==
    /\ PriceDone
    /\ Truthy(soup.meta["product:price:amount"])
    /\ SelectItempropPrice(soup.body) # 0
    /\ Truthy(soup.meta["og:price:amount"])
    /\ price.hint = "meta[property=\"product:sale_price:amount\"]"

NoHigherNameSource ==
    /\ JsonLdBlocks(soup) = <<>>
    /\ soup.meta["og:title"] = None
    /\ NameFromH1(soup) = None

\* C5 as stated: the title "Widget - Acme | Store" gives the name "Widget".
C5_WidgetExample ==
    NameDone /\ NoHigherNameSource /\ soup.title = Str(WIDGET_TITLE)
        => name = Str(WIDGET)

\* the text of title before the first occurrence of sep, trimmed
BeforeFirst(title, sep, r) ==
    \E k \in 1..Len(title) :
        /\ StartsWithAt(title, sep, k)
        /\ \A j \in 1..(k - 1) : ~StartsWithAt(title, sep, j)
        /\ r = Strip(SubSeq(title, 1, k - 1))

\* C5, amended: with no higher-priority source, the name is the trimmed
\* title cut before the first occurrence of the first separator, in the
\* order " | ", " ndash ", " - ", that occurs in it (the whole trimmed title
\* when none does); "Widget - Acme | Store" gives "Widget - Acme".
C5_TitlePriority ==
    NameDone /\ NoHigherNameSource /\ Truthy(soup.title) =>
        LET t    == Strip(soup.title.s)
            here == {i \in 1..3 : Contains(t, Separators[i])}
        IN  /\ name.t = "str"
            /\ here = {} => name.s = t
            /\ \A i \in here :
                  (\A j \in here : i <= j) => BeforeFirst(t, Separators[i], name.s)
            /\ soup.title = Str(WIDGET_TITLE) => name = Str(WIDGET_ACME)

C5_Witness ==
    /\ NameDone /\ NoHigherNameSource
    /\ soup.title = Str(WIDGET_TITLE)
    /\ name = Str(WIDGET_ACME)

\* C6: price_value is present exactly when price_text is, and then the BRL
\* parser applied to price_text gives price_value.
C6_TextParsesToValue ==
    PriceDone =>
        /\ price.value.ok <=> price.text # None
        /\ price.value.ok => FloatEq(ParseBrl(price.text.s), price.value)

\* C7: parsing the formatted text of a value with two decimal digits gives
\* the value back.
C7_RoundTrip == pc = "brl_done" => FloatEq(parsed, val)

FoundByMeta(prop) == price.hint = MetaHint(prop)

NoCurrencyMarker(prop) ==
    LET m == soup.meta[CurrencyProp(prop)]
    IN  m.t # "str" \/ Strip(m.s) = <<>>

\* C8: currency is present exactly when a price was found and is then not
\* blank; it is "BRL" when the strategy's currency marker is missing or
\* blank, and always for the itemprop and visible-text strategies.
C8_Currency ==
    PriceDone =>
        /\ price.curr # None <=> price.value.ok
        /\ price.value.ok <=> price.hint # "None"
        /\ price.value.ok => price.curr.t = "str" /\ Strip(price.curr.s) # <<>>
        /\ \A prop \in {"product:price:amount", "og:price:amount",
                        "product:sale_price:amount"} :
              FoundByMeta(prop) /\ NoCurrencyMarker(prop) => price.curr = Str(BRL)
        /\ price.hint \in {"itemprop=\"price\"", "itemprop=\"price\" (regex)",
                           "regex-dom"}
              => price.curr = Str(BRL)

C8_Witness ==
    /\ PriceDone
    /\ FoundByMeta("product:price:amount")
    /\ soup.meta["product:price:currency"] = Str(<<" ">>)
    /\ price.curr = Str(BRL)

\* C9: a returned name is absent or a non-empty string without leading or
\* trailing whitespace.
C9_NameNotEmpty ==
    NameDone /\ name.t # "raise" =>
        \/ name = None
        \/ name.t = "str" /\ name.s # <<>> /\ Strip(name.s) = name.s

Usable(obj) ==
    /\ obj.type = Str(PRODUCT)
    /\ obj.name.t = "str"
    /\ Strip(obj.name.s) # <<>>

\* C10: when the JSON-LD scan returns, it returns the trimmed name of the
\* first Product block whose name is non-empty after trimming, and absent
\* only when there is no such block.
C10_FirstUsableBlock ==
    pc \in {"cascade", "name_done"} /\ jname.t # "raise" =>
        IF \E i \in 1..Len(blocks) : Usable(blocks[i])
        THEN LET i == CHOOSE k \in 1..Len(blocks) :
                          Usable(blocks[k]) /\ \A j \in 1..(k - 1) : ~Usable(blocks[j])
             IN  jname = Str(Strip(blocks[i].name.s))
        ELSE jname = None

====
